---- MODULE Spec2Model ----
(***************************************************************************)
(* Model of the floor-plan extraction code (src/extraction).               *)
(*                                                                         *)
(* geometry.py  : Line, LineSegment, Domain, Polygon (exact rationals      *)
(*                stand for Python floats; see the note at isclose).       *)
(* cubicasa.py  : PlanObject / Room / Divider / Wall / WallOpening / Door  *)
(*                / Window / Fixture / Floor: adjacency detection in two   *)
(*                passes, opening resolution, fixture containment.         *)
(* extract.py   : process() and the module's main loop.                    *)
(***************************************************************************)
EXTENDS Integers, Sequences, FiniteSets, TLC

(***************************************************************************)
(* Numbers.  A Python float is modelled by an exact rational <<n, d>> in   *)
(* lowest terms with d > 0.  The special floats are <<1, 0>> (math.inf),   *)
(* <<-1, 0>> (-math.inf) and <<0, 0>> (math.nan).  Python's None is        *)
(* <<0, -1>>, so that every value can be compared with "=".                *)
(***************************************************************************)
Abs(n) == IF n < 0 THEN -n ELSE n

RECURSIVE GCD(_, _)
GCD(a, b) == IF b = 0 THEN a ELSE GCD(b, a % b)

Q(n, d) ==
    LET g == GCD(Abs(n), Abs(d))
        s == IF d < 0 THEN -1 ELSE 1
    IN  <<(s * n) \div g, (s * d) \div g>>

Inf == <<1, 0>>
NInf == <<-1, 0>>
NaN == <<0, 0>>
None == <<0, -1>>
Zero == <<0, 1>>
One == <<1, 1>>

isinf(v) == v = Inf \/ v = NInf
isnan(v) == v = NaN

RAdd(a, b) == Q(a[1] * b[2] + b[1] * a[2], a[2] * b[2])
RSub(a, b) == Q(a[1] * b[2] - b[1] * a[2], a[2] * b[2])
RMul(a, b) == Q(a[1] * b[1], a[2] * b[2])
RDiv(a, b) == Q(a[1] * b[2], a[2] * b[1])
RNeg(a) == <<-a[1], a[2]>>
RAbs(a) == <<Abs(a[1]), a[2]>>
RLt(a, b) == a[1] * b[2] < b[1] * a[2]
RLe(a, b) == a[1] * b[2] <= b[1] * a[2]
RMin(a, b) == IF RLe(a, b) THEN a ELSE b
RMax(a, b) == IF RLe(a, b) THEN b ELSE a

\* geometry.py:9
ABS_TOL == <<1, 100>>

\* geometry.py:11-12, math.isclose(a, b, abs_tol=ABS_TOL): equal values are
\* close (also inf with inf), nan is close to nothing, an infinity is close
\* only to itself, otherwise |a - b| <= max(1e-9 * max(|a|, |b|), 0.01); the
\* relative term is below 0.01 for every magnitude below 10^7, which covers
\* every value of this model, so the bound is ABS_TOL.
isclose(a, b) ==
    IF isnan(a) \/ isnan(b) THEN FALSE
    ELSE IF a = b THEN TRUE
    ELSE IF isinf(a) \/ isinf(b) THEN FALSE
    ELSE RLe(RAbs(RSub(a, b)), ABS_TOL)

\* geometry.py:15
Point(x, y) == [x |-> x, y |-> y]

\* None where a Point is expected.
NoPoint == Point(None, None)

\* math.dist(p, q) squared; distances are only ever compared with "<".
DistSq(p, q) ==
    LET dx == RSub(p.x, q.x)
        dy == RSub(p.y, q.y)
    IN  RAdd(RMul(dx, dx), RMul(dy, dy))

(***************************************************************************)
(* Line: a x + b y + c = 0  (geometry.py:18-130)                           *)
(***************************************************************************)
Line(a, b, c) == [a |-> a, b |-> b, c |-> c]

is_horizontal(l) == l.a = Zero
is_vertical(l) == l.b = Zero

slope(l) == IF is_vertical(l) THEN Inf ELSE RDiv(RNeg(l.a), l.b)

perpendicular_slope(l) == IF is_horizontal(l) THEN Inf ELSE RDiv(l.b, l.a)

intercept(l) == IF is_vertical(l) THEN NaN ELSE RDiv(RNeg(l.c), l.b)

Line_eq(l, m) ==
    isclose(slope(l), slope(m)) /\ isclose(intercept(l), intercept(m))

solve_for_y(l, x) ==
    IF is_vertical(l)
    THEN (IF x = RNeg(l.c) THEN Inf ELSE NaN)
    ELSE RDiv(RAdd(RMul(l.a, x), l.c), RNeg(l.b))

Line_contains_point(l, p) ==
    isclose(RAdd(RAdd(RMul(l.a, p.x), RMul(l.b, p.y)), l.c), Zero)

\* NoPoint (None) when the determinant is exactly zero.
Line_intersect(l, m) ==
    LET nx == RSub(RMul(l.b, m.c), RMul(m.b, l.c))
        ny == RSub(RMul(l.c, m.a), RMul(m.c, l.a))
        d == RSub(RMul(l.a, m.b), RMul(m.a, l.b))
    IN  IF d # Zero THEN Point(RDiv(nx, d), RDiv(ny, d)) ELSE NoPoint

\* Raises for point1 = point2; every caller in this model passes two
\* distinct points (see Raises_through_points).
through_points(point1, point2) ==
    Line(RSub(point1.y, point2.y),
         RSub(point2.x, point1.x),
         RSub(RMul(point1.x, point2.y), RMul(point2.x, point1.y)))

Raises_through_points(point1, point2) == point1 = point2

through_point(point, sl) ==
    LET dx == IF isinf(sl) THEN Zero ELSE One
        dy == IF isinf(sl) THEN One ELSE sl
    IN  through_points(point, Point(RAdd(point.x, dx), RAdd(point.y, dy)))

Line_closest_to_point(l, point) ==
    Line_intersect(l, through_point(point, perpendicular_slope(l)))

(***************************************************************************)
(* Domain (geometry.py:275-306)                                            *)
(***************************************************************************)
Domain(start, end) == [start |-> start, end |-> end]

Domain_contains(dom, value) ==
    LET lo == RMin(dom.start, dom.end)
        hi == RMax(dom.start, dom.end)
    IN  \/ (RLe(lo, value) /\ RLe(value, hi))
        \/ isclose(value, lo)
        \/ isclose(value, hi)

Domain_position(dom, value) ==
    IF dom.end = dom.start
    THEN (IF Domain_contains(dom, value) THEN Inf ELSE NInf)
    ELSE RDiv(RSub(value, dom.start), RSub(dom.end, dom.start))

(***************************************************************************)
(* LineSegment (geometry.py:133-271)                                       *)
(***************************************************************************)
LineSegment(start, end) == [start |-> start, end |-> end]

seg_x(s) == Domain(s.start.x, s.end.x)
seg_y(s) == Domain(s.start.y, s.end.y)

seg_line(s) == through_points(s.start, s.end)

position(s, point) ==
    LET px == Domain_position(seg_x(s), point.x)
        py == Domain_position(seg_y(s), point.y)
    IN  IF isinf(px) THEN py
        ELSE IF isinf(py) THEN px
        ELSE IF isclose(px, py) THEN px
        ELSE None

is_in_range(s, point) ==
    Domain_contains(seg_x(s), point.x) /\ Domain_contains(seg_y(s), point.y)

LineSegment_contains_point(s, point) ==
    Line_contains_point(seg_line(s), point) /\ is_in_range(s, point)

\* position is never None here: the closest point lies on the line.
closest_to_point(s, point) ==
    LET closest == Line_closest_to_point(seg_line(s), point)
        pos == position(s, closest)
    IN  IF RLt(pos, Zero) THEN s.start
        ELSE IF RLt(One, pos) THEN s.end
        ELSE closest

\* distance_to_point(point) < tolerance, for tolerance >= 0.
distance_lt(s, point, tolerance) ==
    RLt(DistSq(point, closest_to_point(s, point)), RMul(tolerance, tolerance))

\* The four (edge, point) pairs of intersect and is_close, in the code's order.
pairs(self, other) ==
    << <<self, other.start>>, <<self, other.end>>,
       <<other, self.start>>, <<other, self.end>> >>

\* <<point>> when the pair passed its test, <<>> otherwise.
Sel(hit, point) == IF hit THEN <<point>> ELSE <<>>

\* The result of intersect: a LineSegment, a Point or None.
SegmentResult(start, end) == [kind |-> "LineSegment", start |-> start, end |-> end]
PointResult(point) == [kind |-> "Point", start |-> point, end |-> point]
NoResult == [kind |-> "None", start |-> Point(None, None), end |-> Point(None, None)]

intersect(self, other) ==
    IF Line_eq(seg_line(self), seg_line(other))
    THEN LET ps == pairs(self, other)
             endpoints ==
                 Sel(LineSegment_contains_point(ps[1][1], ps[1][2]), ps[1][2])
                 \o Sel(LineSegment_contains_point(ps[2][1], ps[2][2]), ps[2][2])
                 \o Sel(LineSegment_contains_point(ps[3][1], ps[3][2]), ps[3][2])
                 \o Sel(LineSegment_contains_point(ps[4][1], ps[4][2]), ps[4][2])
         IN  IF Len(endpoints) >= 2
             THEN SegmentResult(endpoints[1], endpoints[2])
             ELSE NoResult
    ELSE LET intersect_point == Line_intersect(seg_line(self), seg_line(other))
         IN  IF intersect_point # NoPoint /\ is_in_range(other, intersect_point)
             THEN PointResult(intersect_point)
             ELSE NoResult

is_close(self, other, tolerance) ==
    LET ps == pairs(self, other)
        close_points ==
            Cardinality({i \in 1..4 : distance_lt(ps[i][1], ps[i][2], tolerance)})
    IN  close_points >= 2

(***************************************************************************)
(* Polygon (geometry.py:309-362)                                           *)
(***************************************************************************)
\* pairs_of_vertices without the closing pair (last vertex, first vertex).
pairs_of_vertices_open(vertices) ==
    [i \in 1..(Len(vertices) - 1) |-> <<vertices[i], vertices[i + 1]>>]

\* vertices[-1] raises IndexError for an empty list, geometry.py:320.
Raises_pairs_of_vertices(vertices) == Len(vertices) = 0

pairs_of_vertices(vertices) ==
    [i \in 1..Len(vertices) |->
        <<vertices[i], vertices[IF i = Len(vertices) THEN 1 ELSE i + 1]>>]

edges(vertices) ==
    [i \in 1..Len(vertices) |->
        LineSegment(pairs_of_vertices(vertices)[i][1],
                    pairs_of_vertices(vertices)[i][2])]

crosses(edge, point) ==
    LET y == solve_for_y(seg_line(edge), point.x)
    IN  /\ ~isnan(y)
        /\ ~isinf(y)
        /\ RLe(point.y, y)
        /\ LET py == position(edge, Point(point.x, y))
           IN  RLe(Zero, py) /\ RLt(py, One)

Polygon_contains_point(vertices, point) ==
    Cardinality({i \in 1..Len(vertices) : crosses(edges(vertices)[i], point)}) % 2 = 1

\* The reduce of Polygon.area over the pairs from the i-th on, geometry.py:331.
RECURSIVE shoelace(_, _)
shoelace(ps, i) ==
    IF i > Len(ps) THEN Zero
    ELSE RAdd(RMul(RAdd(ps[i][1].x, ps[i][2].x), RSub(ps[i][1].y, ps[i][2].y)),
              shoelace(ps, i + 1))

\* Polygon.area, geometry.py:329-331.
area(vertices) == RAbs(RDiv(shoelace(pairs_of_vertices(vertices), 1), Q(2, 1)))

(***************************************************************************)
(* State.                                                                  *)
(*   floor         the entities of the floor being analysed, as built by   *)
(*                 Floor.find_objects (immutable afterwards)               *)
(*   pc            <<phase, i, j>>: the position in Floor.find_adjacencies *)
(*                 and Floor.find_inside                                   *)
(*   adjacencies   PlanObject.adjacencies of every Room, Wall and Railing  *)
(*   opening_rooms WallOpening.rooms, a pair, None where unset             *)
(*   doors, windows, fixtures   the three sets of every Room               *)
(*   fixture_rooms Fixture.rooms: the Rooms in insertion order, each with  *)
(*                 the vertices recorded under it                          *)
(*   args, result  the arguments and the result of a geometry call         *)
(*   run           the state of extract.py's main loop                     *)
(***************************************************************************)
VARIABLES floor, pc, adjacencies, opening_rooms, doors, windows, fixtures,
          fixture_rooms, args, result, run

vars == <<floor, pc, adjacencies, opening_rooms, doors, windows, fixtures,
          fixture_rooms, args, result, run>>

floorVars == <<floor, pc, adjacencies, opening_rooms, doors, windows, fixtures,
               fixture_rooms>>

(***************************************************************************)
(* Entities (cubicasa.py:109-442).  An entity is named <<class, index>>,   *)
(* the index being its 1-based position in the floor's list (the code's    *)
(* PlanObject.index plus one).  Edge indexes are the code's, from 0.       *)
(***************************************************************************)
\* cubicasa.py:16
CLOSE_EDGE_TOLERANCE == <<1, 1>>

NoRoom == <<"None", 0>>

RoomId(k) == <<"Room", k>>
WallId(k) == <<"Wall", k>>
RailingId(k) == <<"Railing", k>>

RoomIds == {RoomId(k) : k \in 1..Len(floor.rooms)}
WallIds == {WallId(k) : k \in 1..Len(floor.walls)}
RailingIds == {RailingId(k) : k \in 1..Len(floor.railings)}
OpeningIds == 1..Len(floor.openings)
FixtureIds == 1..Len(floor.fixtures)

\* PlanObject.polygon, cubicasa.py:144-152: drop every point equal to the
\* last point kept (at first, to the last point of the input).
RECURSIVE unique_points(_, _, _)
unique_points(svg_points, i, previous_point) ==
    IF i > Len(svg_points) THEN <<>>
    ELSE IF svg_points[i] # previous_point
         THEN <<svg_points[i]>> \o unique_points(svg_points, i + 1, svg_points[i])
         ELSE unique_points(svg_points, i + 1, previous_point)

polygon(svg_points) == unique_points(svg_points, 1, svg_points[Len(svg_points)])

\* The vertices of an entity's polygon.
Vertices(e) ==
    IF e[1] = "Room" THEN floor.rooms[e[2]].vertices
    ELSE IF e[1] = "Wall" THEN floor.walls[e[2]].vertices
    ELSE floor.railings[e[2]].vertices

\* PlanObject.edges, from index 0.
Edge(e, index) == edges(Vertices(e))[index + 1]
OpeningEdge(o, index) == edges(floor.openings[o].vertices)[index + 1]

\* list.index: the first index (from 0) of an equal edge.
EdgeIndex(vs, edge) ==
    (CHOOSE i \in 1..Len(vs) :
        /\ edges(vs)[i] = edge
        /\ \A k \in 1..(i - 1) : edges(vs)[k] # edge) - 1

\* Every edge of every entity taken as eligible.
eligible_edges_every(e) == [i \in 1..Len(Vertices(e)) |-> i - 1]

\* eligible_edges_with_indexes, as the sequence of the edge indexes:
\* PlanObject (Room) cubicasa.py:166-169, Divider cubicasa.py:291-306.
eligible_edges_with_indexes(e) ==
    LET vs == Vertices(e)
    IN  IF e[1] = "Room" THEN [i \in 1..Len(vs) |-> i - 1]
        ELSE IF Len(vs) = 4
             THEN <<EdgeIndex(vs, edges(vs)[1]), EdgeIndex(vs, edges(vs)[3])>>
             ELSE <<>>

\* The edge indexes of e that some adjacency record of adj names.
CoveredEdges(adj) == {adj[k].self_edge_index : k \in 1..Len(adj)}

\* PlanObject.edges_without_adjacencies, as the sequence of the edge indexes.
edges_without_adjacencies(e, adj) ==
    SelectSeq(eligible_edges_with_indexes(e), LAMBDA i : i \notin CoveredEdges(adj))

AdjacencyInfo(object, self_edge_index, object_edge_index, intersection) ==
    [object |-> object, self_edge_index |-> self_edge_index,
     object_edge_index |-> object_edge_index, intersection |-> intersection]

RECURSIVE Flatten(_)
Flatten(ss) == IF ss = <<>> THEN <<>> ELSE Head(ss) \o Flatten(Tail(ss))

\* One match of find_adjacencies / find_close: the arguments of the two
\* add_adjacency calls of cubicasa.py:193-194 and 210-211.
Match(self_edge_index, object, object_edge_index, intersection) ==
    [self_edge_index |-> self_edge_index, object |-> object,
     object_edge_index |-> object_edge_index, intersection |-> intersection]

\* The matches of the loops over self_edges (edge indexes of self),
\* other_objects and each object's eligible edges, in the loops' order.
\* exact: segment-valued intersection (pass 1); otherwise is_close (pass 2).
Matches(self, self_edges, other_objects, exact, tolerance) ==
    Flatten([a \in 1..Len(self_edges) |->
      Flatten([b \in 1..Len(other_objects) |->
        LET object == other_objects[b]
            object_edges == eligible_edges_with_indexes(object)
        IN  Flatten([c \in 1..Len(object_edges) |->
              LET self_edge == Edge(self, self_edges[a])
                  object_edge == Edge(object, object_edges[c])
                  intersection == intersect(self_edge, object_edge)
              IN  IF exact
                  THEN IF intersection.kind = "LineSegment"
                       THEN <<Match(self_edges[a], object, object_edges[c], intersection)>>
                       ELSE <<>>
                  ELSE IF is_close(self_edge, object_edge, tolerance)
                       THEN <<Match(self_edges[a], object, object_edges[c], NoResult)>>
                       ELSE <<>>])])])

\* PlanObject.find_adjacencies, cubicasa.py:186-194.
find_adjacencies(self, other_objects) ==
    Matches(self, eligible_edges_with_indexes(self), other_objects, TRUE, Zero)

\* PlanObject.find_close, cubicasa.py:197-211: the loose edges are listed
\* once, before the loops, and each is found again by list.index.
find_close(self, other_objects, tolerance) ==
    LET loose_edges == edges_without_adjacencies(self, adjacencies[self])
        self_edges == [a \in 1..Len(loose_edges) |->
                          EdgeIndex(Vertices(self), Edge(self, loose_edges[a]))]
    IN  Matches(self, self_edges, other_objects, FALSE, tolerance)

\* The openings of a wall, in the wall's order (Wall.__init__, cubicasa.py:325-335).
WallOpenings(w) ==
    SelectSeq([o \in 1..Len(floor.openings) |-> o],
              LAMBDA o : WallId(floor.openings[o].wall) = w)

\* The opening state: WallOpening.rooms and the Rooms' doors and windows.
OpeningState(rooms, ds, ws) == [rooms |-> rooms, doors |-> ds, windows |-> ws]

\* Door.add_adjacency / Window.add_adjacency, cubicasa.py:371-382.
opening_add_adjacency(st, o, room, edge_index) ==
    OpeningState(
        [st.rooms EXCEPT ![o][edge_index + 1] = room],
        IF floor.openings[o].type = "Door"
            THEN [st.doors EXCEPT ![room] = @ \cup {o}] ELSE st.doors,
        IF floor.openings[o].type = "Window"
            THEN [st.windows EXCEPT ![room] = @ \cup {o}] ELSE st.windows)

\* One turn of the loop of WallOpening.check_adjacencies, cubicasa.py:365-368.
check_edge(st, o, room, room_edge_index, self_edge_index) ==
    IF is_close(OpeningEdge(o, self_edge_index), Edge(room, room_edge_index),
                CLOSE_EDGE_TOLERANCE)
    THEN opening_add_adjacency(st, o, room, self_edge_index \div 2)
    ELSE st

\* WallOpening.check_adjacencies, cubicasa.py:363-368: both open sides,
\* 0 then 2, are tested against the room's edge.
check_adjacencies(st, o, room, room_edge_index) ==
    check_edge(check_edge(st, o, room, room_edge_index, 0), o, room, room_edge_index, 2)

\* The loop over the openings in Wall.add_adjacency, cubicasa.py:344-346.
RECURSIVE check_openings(_, _, _, _)
check_openings(st, os, room, room_edge_index) ==
    IF os = <<>> THEN st
    ELSE check_openings(check_adjacencies(st, Head(os), room, room_edge_index),
                        Tail(os), room, room_edge_index)

\* The opening state after the add_adjacency calls of the matches, in order:
\* only Wall.add_adjacency (cubicasa.py:341-346) touches it.
RECURSIVE after_matches(_, _, _)
after_matches(st, self, ms) ==
    IF ms = <<>> THEN st
    ELSE after_matches(
            IF Head(ms).object[1] = "Wall" /\ self[1] = "Room"
            THEN check_openings(st, WallOpenings(Head(ms).object), self,
                                Head(ms).self_edge_index)
            ELSE st,
            self, Tail(ms))

\* As new_records, the mirrored record keeping the caller's order of the indexes.
new_records_unswapped(e, self, ms) ==
    IF e = self
    THEN [k \in 1..Len(ms) |->
            AdjacencyInfo(ms[k].object, ms[k].self_edge_index,
                          ms[k].object_edge_index, ms[k].intersection)]
    ELSE LET mine == SelectSeq(ms, LAMBDA m : m.object = e)
         IN  [k \in 1..Len(mine) |->
                AdjacencyInfo(self, mine[k].self_edge_index,
                              mine[k].object_edge_index, mine[k].intersection)]

\* The records the matches append to entity e's AdjacencyList
\* (PlanObject.add_adjacency cubicasa.py:183-184, AdjacencyList.add 221-226):
\* self gets one per match, the matched object gets the mirrored one.
new_records(e, self, ms) ==
    IF e = self
    THEN [k \in 1..Len(ms) |->
            AdjacencyInfo(ms[k].object, ms[k].self_edge_index,
                          ms[k].object_edge_index, ms[k].intersection)]
    ELSE LET mine == SelectSeq(ms, LAMBDA m : m.object = e)
         IN  [k \in 1..Len(mine) |->
                AdjacencyInfo(self, mine[k].object_edge_index,
                              mine[k].self_edge_index, mine[k].intersection)]

\* The state after the matches ms of entity self have been recorded.
Record(self, ms) ==
    LET st == after_matches(OpeningState(opening_rooms, doors, windows), self, ms)
    IN  /\ adjacencies' = [e \in DOMAIN adjacencies |->
                              adjacencies[e] \o new_records(e, self, ms)]
        /\ opening_rooms' = st.rooms
        /\ doors' = st.doors
        /\ windows' = st.windows

(***************************************************************************)
(* Fixtures (cubicasa.py:385-442) and Room.connected_rooms.                *)
(***************************************************************************)
\* The Rooms of Fixture.rooms, in insertion order.
FixtureRoomList(f) == [k \in 1..Len(fixture_rooms[f]) |-> fixture_rooms[f][k].room]

FixtureRoomSet(f) == {fixture_rooms[f][k].room : k \in 1..Len(fixture_rooms[f])}

\* The first room of the sequence rs that passes test, NoRoom if none does.
RECURSIVE first_room(_, _, _, _)
first_room(rs, i, vertex, skip) ==
    IF i > Len(rs) THEN NoRoom
    ELSE IF rs[i] \notin skip /\ Polygon_contains_point(Vertices(rs[i]), vertex)
         THEN rs[i]
         ELSE first_room(rs, i + 1, vertex, skip)

\* The first Room in floor order that contains the vertex, associated or not.
find_room_floor_order(f, rooms, vertex) == first_room(rooms, 1, vertex, {})

\* Fixture._find_room, cubicasa.py:433-442: the Room the vertex is recorded
\* under, NoRoom if it is recorded nowhere.
find_room(f, rooms, vertex) ==
    LET known == first_room(FixtureRoomList(f), 1, vertex, {})
    IN  IF known # NoRoom THEN known
        ELSE first_room(rooms, 1, vertex, FixtureRoomSet(f))

\* Fixture.add_room, cubicasa.py:423-427, on Fixture.rooms.
add_room(rs, room, vertex) ==
    IF \E k \in 1..Len(rs) : rs[k].room = room
    THEN [k \in 1..Len(rs) |->
            IF rs[k].room = room
            THEN [room |-> room, vertices |-> Append(rs[k].vertices, vertex)]
            ELSE rs[k]]
    ELSE Append(rs, [room |-> room, vertices |-> <<vertex>>])

\* The openings of a set, in index order (a Python set has no order of its own).
RECURSIVE SetToSeq(_)
SetToSeq(S) ==
    IF S = {} THEN <<>>
    ELSE LET m == CHOOSE x \in S : \A y \in S : x <= y
         IN  <<m>> \o SetToSeq(S \ {m})

\* connected_rooms as the far-side Rooms only: unresolved sides are left out.
connected_rooms_resolved(self) ==
    LET ds == SetToSeq(doors[self])
        far == [k \in 1..Len(ds) |->
                   IF opening_rooms[ds[k]][1] = self
                   THEN opening_rooms[ds[k]][2]
                   ELSE opening_rooms[ds[k]][1]]
    IN  SelectSeq(far, LAMBDA room : room # NoRoom)

\* Room.connected_rooms, cubicasa.py:281-282: one element per door.
connected_rooms(self) ==
    LET ds == SetToSeq(doors[self])
    IN  [k \in 1..Len(ds) |->
            IF opening_rooms[ds[k]][1] = self
            THEN opening_rooms[ds[k]][2]
            ELSE opening_rooms[ds[k]][1]]

(***************************************************************************)
(* The floors analysed.  Coordinates are given in half units, so that a    *)
(* gap of 0.5 (below the tolerance of 1.0) can be drawn.  A is open to B;  *)
(* C and B are separated by the wall W, which holds a door and a window;   *)
(* a railing runs along the top of A; a second wall is a triangle with one *)
(* side on the bottom edge of B.                                            *)
(*                                                                         *)
(*      RRRRRRRR                                                           *)
(*      AAAAAAAA CCCCCCCCCCCC                                              *)
(*      AAAAAAAA WWWWWWWWWWWW      (door and window inside W)              *)
(*      BBBBBBBBBBBBBBBBBB         (gap g between B and A, W)              *)
(***************************************************************************)
MaxGap == 2
MaxThick == 2

P(hx, hy) == Point(Q(hx, 2), Q(hy, 2))

\* svgelements.Rect, cubicasa.py:127-133.
Rect(x1, y1, x2, y2) == <<P(x1, y1), P(x2, y1), P(x2, y2), P(x1, y2)>>

\* A closed point list: the first point is repeated at the end.
Closed(points) == Append(points, points[1])

Transpose(points) == [i \in DOMAIN points |-> Point(points[i].y, points[i].x)]

Orders == {<<1, 2, 3>>, <<3, 2, 1>>, <<2, 1, 3>>}

\* variant 1: A reaches the end of the wall and the door is 0.5 from it;
\* variant 2: A ends 1.0 before the wall and the door is 1.0 from the wall's end.
Plan(variant, g, t, order, transposed) ==
    LET T(points) == polygon(IF transposed THEN Transpose(points) ELSE points)
        aw == IF variant = 1 THEN 8 ELSE 6
        d == IF variant = 1 THEN 1 ELSE 2
        base == << [name |-> "A", vertices |-> T(Closed(Rect(0, 0, aw, 8)))],
                   [name |-> "C", vertices |-> T(Rect(8, 0, 20, 8 - t))],
                   [name |-> "B", vertices |-> T(Closed(Rect(0, 8 + g, 18, 16 + g)))] >>
    IN  [rooms |-> [k \in 1..3 |-> base[order[k]]],
         walls |-> << [vertices |-> T(Rect(8, 8 - t, 20, 8))],
                      [vertices |-> T(<<P(2, 16 + g), P(6, 16 + g), P(4, 18 + g)>>)] >>,
         railings |-> << [vertices |-> T(Rect(0, -2, 8, 0))] >>,
         openings |-> << [wall |-> 1, type |-> "Door",
                          vertices |-> T(Rect(8 + d, 8 - t, 12 + d, 8))],
                         [wall |-> 1, type |-> "Window",
                          vertices |-> T(Rect(15, 8 - t, 18, 8))] >>,
         fixtures |-> << [vertices |-> T(<<P(4, 12 + g), P(18, 2), P(2, 2)>>)],
                         [vertices |-> T(Rect(-4, 2, 2, 6))],
                         [vertices |-> T(<<P(4, 4)>>)] >>]

\* Four triangular rooms: every edge of D lies on an edge of E, F or G.
\*      EEEEEEE
\*      GDDDDDF
\*      GG D FF
Triangles(first, transposed) ==
    LET T(points) == polygon(IF transposed THEN Transpose(points) ELSE points)
        D == [name |-> "D", vertices |-> T(<<P(0, 0), P(8, 0), P(4, 4)>>)]
        rest == << [name |-> "E", vertices |-> T(<<P(0, 0), P(4, -4), P(8, 0)>>)],
                   [name |-> "F", vertices |-> T(<<P(8, 0), P(8, 4), P(4, 4)>>)],
                   [name |-> "G", vertices |-> T(<<P(0, 0), P(4, 4), P(0, 4)>>)] >>
    IN  [rooms |-> IF first THEN <<D>> \o rest ELSE rest \o <<D>>,
         walls |-> <<>>,
         railings |-> <<>>,
         openings |-> <<>>,
         fixtures |-> << [vertices |-> T(<<P(4, 1), P(7, 3), P(4, 4)>>)] >>]

\* Room X has the wall on one part of an edge; Room Y lies 0.5 from
\* another part of the same edge, with no wall between them.
\*      XXXXXXXXXX
\*      XXXXXXXXXX
\*                  WWWW
\*      YYYY
Junction(first, transposed) ==
    LET T(points) == polygon(IF transposed THEN Transpose(points) ELSE points)
        X == [name |-> "X", vertices |-> T(Rect(0, 0, 20, 8))]
        Y == [name |-> "Y", vertices |-> T(Rect(0, 9, 8, 16))]
    IN  [rooms |-> IF first THEN <<Y, X>> ELSE <<X, Y>>,
         walls |-> << [vertices |-> T(Rect(12, 8, 20, 10))] >>,
         railings |-> <<>>,
         openings |-> <<>>,
         fixtures |-> <<>>]

Plans ==
    {Plan(variant, g, t, order, transposed) :
        variant \in {1, 2}, g \in 0..MaxGap, t \in 1..MaxThick,
        order \in Orders, transposed \in BOOLEAN}
    \cup {Triangles(first, transposed) : first \in BOOLEAN, transposed \in BOOLEAN}
    \cup {Junction(first, transposed) : first \in BOOLEAN, transposed \in BOOLEAN}

\* The Room named n.
RoomNamed(n) == CHOOSE r \in RoomIds : floor.rooms[r[2]].name = n

IdleArgs == [op |-> "none"]
IdleRun == [phase |-> "idle"]

(***************************************************************************)
(* Floor.find_adjacencies and Floor.find_inside (cubicasa.py:544-561) as   *)
(* called by process (extract.py:60-62).                                   *)
(***************************************************************************)
Init ==
    /\ floor \in Plans
    /\ pc = <<"pass1", 1, 1>>
    /\ adjacencies = [e \in RoomIds \cup WallIds \cup RailingIds |-> <<>>]
    /\ opening_rooms = [o \in OpeningIds |-> <<NoRoom, NoRoom>>]
    /\ doors = [r \in RoomIds |-> {}]
    /\ windows = [r \in RoomIds |-> {}]
    /\ fixtures = [r \in RoomIds |-> {}]
    /\ fixture_rooms = [f \in FixtureIds |-> <<>>]
    /\ args = IdleArgs
    /\ result = IdleArgs
    /\ run = IdleRun

Rooms == [k \in 1..Len(floor.rooms) |-> RoomId(k)]
Walls == [k \in 1..Len(floor.walls) |-> WallId(k)]
Railings == [k \in 1..Len(floor.railings) |-> RailingId(k)]

\* self.rooms[room_index+1:]
RoomsAfter(i) == SubSeq(Rooms, i + 1, Len(Rooms))

\* The candidates when the third call is given every Room of the floor.
Candidates_all(i, j) ==
    IF j = 1 THEN Walls ELSE IF j = 2 THEN Railings ELSE Rooms

\* The candidates of the j-th call for the i-th room (cubicasa.py:548-550, 555-557).
Candidates(i, j) ==
    IF j = 1 THEN Walls ELSE IF j = 2 THEN Railings ELSE RoomsAfter(i)

\* The first vertex of the first fixture from f on that has one; done if none.
RECURSIVE InsideFrom(_)
InsideFrom(f) ==
    IF f > Len(floor.fixtures) THEN <<"done", 0, 0>>
    ELSE IF Len(floor.fixtures[f].vertices) = 0 THEN InsideFrom(f + 1)
    ELSE <<"inside", f, 1>>

\* The position after the j-th call for the i-th room in a pass.
AfterCall(phase, i, j) ==
    IF j < 3 THEN <<phase, i, j + 1>>
    ELSE IF i < Len(floor.rooms) THEN <<phase, i + 1, 1>>
    ELSE IF phase = "pass1" THEN <<"pass2", 1, 1>>
    ELSE InsideFrom(1)

\* room.find_adjacencies(...), cubicasa.py:548-550.
FindAdjacencies ==
    /\ pc[1] = "pass1"
    /\ Record(RoomId(pc[2]), find_adjacencies(RoomId(pc[2]), Candidates(pc[2], pc[3])))
    /\ pc' = AfterCall("pass1", pc[2], pc[3])
    /\ UNCHANGED <<floor, fixtures, fixture_rooms, args, result, run>>

\* cubicasa.py:554, a room all of whose edges have an adjacency is passed over.
NoLooseEdges ==
    /\ pc[1] = "pass2" /\ pc[3] = 1
    /\ Len(edges_without_adjacencies(RoomId(pc[2]), adjacencies[RoomId(pc[2])])) = 0
    /\ pc' = AfterCall("pass2", pc[2], 3)
    /\ UNCHANGED <<floor, adjacencies, opening_rooms, doors, windows, fixtures,
                   fixture_rooms, args, result, run>>

\* room.find_close(..., CLOSE_EDGE_TOLERANCE), cubicasa.py:555-557.
FindClose ==
    /\ pc[1] = "pass2"
    /\ pc[3] = 1 =>
         Len(edges_without_adjacencies(RoomId(pc[2]), adjacencies[RoomId(pc[2])])) > 0
    /\ Record(RoomId(pc[2]),
              find_close(RoomId(pc[2]), Candidates(pc[2], pc[3]), CLOSE_EDGE_TOLERANCE))
    /\ pc' = AfterCall("pass2", pc[2], pc[3])
    /\ UNCHANGED <<floor, fixtures, fixture_rooms, args, result, run>>

\* fixture._find_room(rooms, vertex), one turn of the loops of
\* Floor.find_inside and Fixture.find_rooms (cubicasa.py:429-442, 559-561).
FindRoom ==
    /\ pc[1] = "inside"
    /\ LET f == pc[2]
           vertex == floor.fixtures[f].vertices[pc[3]]
           room == find_room(f, Rooms, vertex)
       IN  /\ IF room = NoRoom
              THEN UNCHANGED <<fixture_rooms, fixtures>>
              ELSE /\ fixture_rooms' =
                        [fixture_rooms EXCEPT ![f] = add_room(@, room, vertex)]
                   /\ fixtures' = [fixtures EXCEPT ![room] = @ \cup {f}]
           /\ pc' = IF pc[3] < Len(floor.fixtures[f].vertices)
                    THEN <<"inside", f, pc[3] + 1>>
                    ELSE InsideFrom(f + 1)
    /\ UNCHANGED <<floor, adjacencies, opening_rooms, doors, windows, args, result, run>>

Next == FindAdjacencies \/ NoLooseEdges \/ FindClose \/ FindRoom

Spec == Init /\ [][Next]_vars

(***************************************************************************)
(* Properties of the adjacency detection.                                  *)
(***************************************************************************)
Entities == RoomIds \cup WallIds \cup RailingIds

\* The number of records of a that name b with the edge indexes (i, j).
Records(a, b, i, j) ==
    Cardinality({k \in 1..Len(adjacencies[a]) :
        /\ adjacencies[a][k].object = b
        /\ adjacencies[a][k].self_edge_index = i
        /\ adjacencies[a][k].object_edge_index = j})

\* C1: in every state of the detection, entity a holds as many records
\* naming b with the edge indexes (i, j) as b holds records naming a with
\* (j, i); in particular a has such a record iff b has the mirrored one.
C1_Symmetry ==
    \A a \in Entities : \A k \in 1..Len(adjacencies[a]) :
        LET r == adjacencies[a][k]
        IN  /\ r.object \in Entities
            /\ Records(a, r.object, r.self_edge_index, r.object_edge_index)
                 = Records(r.object, a, r.object_edge_index, r.self_edge_index)

\* A state of pass 2 in which exact and tolerance-based records exist.
C1_Witness ==
    /\ pc[1] = "pass2"
    /\ \E a \in RoomIds : \E k, n \in 1..Len(adjacencies[a]) :
        /\ adjacencies[a][k].intersection.kind = "LineSegment"
        /\ adjacencies[a][n].intersection.kind = "None"
        /\ adjacencies[a][n].object[1] = "Room"
        /\ adjacencies[a][k].object[1] = "Wall"

EdgeIndexes(e) == 0..(Len(Vertices(e)) - 1)

\* The eligible edge indexes of an entity, as a set.
Eligible(e) ==
    {eligible_edges_with_indexes(e)[c] : c \in 1..Len(eligible_edges_with_indexes(e))}

Exact(edge1, edge2) == intersect(edge1, edge2).kind = "LineSegment"

\* Edge i of room r has no segment-valued intersection with any candidate edge.
NoExact(r, i) ==
    \A o \in Entities \ {r} : \A j \in Eligible(o) :
        ~Exact(Edge(r, i), Edge(o, j)) /\ ~Exact(Edge(o, j), Edge(r, i))

Pass1Done == pc = <<"pass2", 1, 1>>
Pass2Done == pc = InsideFrom(1)
DetectionDone == pc[1] \in {"inside", "done"}

\* C2: a Room edge with no segment-valued intersection with any candidate
\* edge that is within the tolerance of a Wall face has no record to that
\* Wall when pass 1 completes and has one when pass 2 completes; no
\* tolerance-based record (intersection none) exists during pass 1.
C2_TwoPass ==
    /\ pc[1] = "pass1" =>
         \A a \in Entities : \A k \in 1..Len(adjacencies[a]) :
             adjacencies[a][k].intersection.kind = "LineSegment"
    /\ (Pass1Done \/ Pass2Done) =>
         \A r \in RoomIds : \A w \in WallIds : \A i \in EdgeIndexes(r) :
           \A j \in Eligible(w) :
             (is_close(Edge(r, i), Edge(w, j), CLOSE_EDGE_TOLERANCE) /\ NoExact(r, i))
               => /\ Pass1Done => Records(r, w, i, j) = 0
                  /\ Pass2Done => Records(r, w, i, j) > 0

IsPrefix(p, q) == Len(p) <= Len(q) /\ \A k \in 1..Len(p) : q[k] = p[k]

\* C3: within the analysis of a floor no step changes or removes an
\* adjacency record, a set side of an opening or a fixture's association.
C3_AppendOnly ==
    [][ /\ \A e \in DOMAIN adjacencies : IsPrefix(adjacencies[e], adjacencies'[e])
        /\ \A o \in DOMAIN opening_rooms : \A side \in 1..2 :
              opening_rooms[o][side] # NoRoom
                 => opening_rooms'[o][side] = opening_rooms[o][side]
        /\ \A f \in DOMAIN fixture_rooms :
              /\ Len(fixture_rooms[f]) <= Len(fixture_rooms'[f])
              /\ \A k \in 1..Len(fixture_rooms[f]) :
                    /\ fixture_rooms'[f][k].room = fixture_rooms[f][k].room
                    /\ IsPrefix(fixture_rooms[f][k].vertices,
                                fixture_rooms'[f][k].vertices) ]_vars

InSeq(x, q) == \E k \in 1..Len(q) : q[k] = x

\* C4: a Door of a Wall whose face 0 is adjacent to Room A (by A's edge i)
\* and whose face 2 is adjacent to Room B (by B's edge j), with edge 0
\* within tolerance of A's edge and edge 2 within tolerance of B's edge, has
\* rooms = (A, B) after the detection, and A and B are in each other's
\* connected_rooms().
C4_DoorResolution ==
    DetectionDone =>
      \A o \in OpeningIds : floor.openings[o].type = "Door" =>
        \A A \in RoomIds : \A B \in RoomIds \ {A} :
          \A i \in EdgeIndexes(A) : \A j \in EdgeIndexes(B) :
            LET w == WallId(floor.openings[o].wall)
            IN  ( /\ Records(w, A, 0, i) > 0
                  /\ Records(w, B, 2, j) > 0
                  /\ is_close(OpeningEdge(o, 0), Edge(A, i), CLOSE_EDGE_TOLERANCE)
                  /\ is_close(OpeningEdge(o, 2), Edge(B, j), CLOSE_EDGE_TOLERANCE) )
                => /\ opening_rooms[o] = <<A, B>>
                   /\ InSeq(B, connected_rooms(A))
                   /\ InSeq(A, connected_rooms(B))

Resolved(o) == {side \in 1..2 : opening_rooms[o][side] # NoRoom}

\* C5 as stated: connected_rooms() holds only Rooms other than the one
\* queried, and only the Doors with two resolved sides contribute to it.
C5_FarSideRooms ==
    \A r \in RoomIds :
        /\ \A k \in 1..Len(connected_rooms(r)) : connected_rooms(r)[k] \in RoomIds \ {r}
        /\ Len(connected_rooms(r))
             = Cardinality({o \in doors[r] : Cardinality(Resolved(o)) = 2})

\* C5 as amended: connected_rooms() holds one element per Door of the Room,
\* taken from that Door's two sides; the element is none when the Room is on
\* the Door's only resolved side.
C5_OneElementPerDoor ==
    \A r \in RoomIds :
        LET ds == SetToSeq(doors[r])
            cr == connected_rooms(r)
        IN  /\ Len(cr) = Cardinality(doors[r])
            /\ \A k \in 1..Len(cr) :
                  /\ cr[k] \in {opening_rooms[ds[k]][1], opening_rooms[ds[k]][2]}
                  /\ opening_rooms[ds[k]] \in {<<r, NoRoom>>, <<NoRoom, r>>}
                        => cr[k] = NoRoom

\* After the detection, a Door with one resolved side in its Room's set.
C5_Witness ==
    /\ DetectionDone
    /\ \E r \in RoomIds : \E o \in doors[r] :
          /\ opening_rooms[o] \in {<<r, NoRoom>>, <<NoRoom, r>>}
          /\ InSeq(NoRoom, connected_rooms(r))

\* Twice the signed area of the triangle a, b, p.
Cross(a, b, p) ==
    RSub(RMul(RSub(b.x, a.x), RSub(p.y, a.y)), RMul(RSub(b.y, a.y), RSub(p.x, a.x)))

\* p lies strictly inside the convex polygon vs: on the same side of every edge.
StrictlyInside(vs, p) ==
    \/ \A k \in 1..Len(vs) : RLt(Zero, Cross(edges(vs)[k].start, edges(vs)[k].end, p))
    \/ \A k \in 1..Len(vs) : RLt(Cross(edges(vs)[k].start, edges(vs)[k].end, p), Zero)

\* Fixture.find_rooms has run for fixture f.
FoundRooms(f) == pc[1] = "done" \/ (pc[1] = "inside" /\ pc[2] > f)

VertexSet(f) == {floor.fixtures[f].vertices[k] : k \in 1..Len(floor.fixtures[f].vertices)}

\* C6: after find_rooms, a Fixture with one vertex inside Room A and another
\* inside Room B is associated with both, and both Rooms' sets hold it.
C6_SpanningFixture ==
    \A f \in FixtureIds : FoundRooms(f) =>
      \A A \in RoomIds : \A B \in RoomIds \ {A} :
        ( /\ \E u \in VertexSet(f) : StrictlyInside(Vertices(A), u)
          /\ \E v \in VertexSet(f) : StrictlyInside(Vertices(B), v) )
        => /\ {A, B} \subseteq FixtureRoomSet(f)
           /\ f \in fixtures[A] /\ f \in fixtures[B]

(***************************************************************************)
(* The geometry functions on their own (geometry.py): a call is drawn in   *)
(* the initial state and the function is applied to it.  Segments have     *)
(* their endpoints on the integer grid 0..GridMax; the polygons are the    *)
(* triangles of that grid, the square of side 4 and the diamond inscribed  *)
(* in it; the points tested reach one unit beyond the polygons.            *)
(***************************************************************************)
GridMax == 2

GridPoints(lo, hi) == {Point(Q(x, 1), Q(y, 1)) : x \in lo..hi, y \in lo..hi}

\* LineSegment(start, end) with two distinct ends (Line.through_points
\* raises for identical points, geometry.py:115-116).
GridSegments ==
    {LineSegment(a, b) : a \in GridPoints(0, GridMax),
                         b \in GridPoints(0, GridMax)} \
        {LineSegment(a, a) : a \in GridPoints(0, GridMax)}

GridTriangles ==
    {<<a, b, c>> : a \in GridPoints(0, GridMax), b \in GridPoints(0, GridMax),
                   c \in GridPoints(0, GridMax)} \
        {t \in GridPoints(0, GridMax) \X GridPoints(0, GridMax) \X GridPoints(0, GridMax) :
            Cross(t[1], t[2], t[3]) = Zero}

Square == <<Point(Q(0, 1), Q(0, 1)), Point(Q(4, 1), Q(0, 1)),
            Point(Q(4, 1), Q(4, 1)), Point(Q(0, 1), Q(4, 1))>>

Diamond == <<Point(Q(2, 1), Q(0, 1)), Point(Q(4, 1), Q(2, 1)),
             Point(Q(2, 1), Q(4, 1)), Point(Q(0, 1), Q(2, 1))>>

IdleFloor == [rooms |-> <<>>, walls |-> <<>>, railings |-> <<>>,
              openings |-> <<>>, fixtures |-> <<>>]

IdleFloorState ==
    /\ floor = IdleFloor
    /\ pc = <<"idle", 0, 0>>
    /\ adjacencies = <<>>
    /\ opening_rooms = <<>>
    /\ doors = <<>>
    /\ windows = <<>>
    /\ fixtures = <<>>
    /\ fixture_rooms = <<>>

InitGeom ==
    /\ IdleFloorState
    /\ \/ \E s \in GridSegments, o \in GridSegments :
              \/ args = [op |-> "intersect", self |-> s, other |-> o]
              \/ args = [op |-> "is_close", self |-> s, other |-> o,
                         tolerance |-> CLOSE_EDGE_TOLERANCE]
       \/ \E vs \in GridTriangles, point \in GridPoints(-1, GridMax + 1) :
              args = [op |-> "contains_point", vertices |-> vs, point |-> point]
       \/ \E vs \in {Square, Diamond}, point \in GridPoints(-1, 5) :
              args = [op |-> "contains_point", vertices |-> vs, point |-> point]
    /\ result = IdleArgs
    /\ run = IdleRun

\* self.intersect(other), geometry.py:232-254.
CallIntersect ==
    /\ args.op = "intersect" /\ result = IdleArgs
    /\ result' = [op |-> "intersect", value |-> intersect(args.self, args.other)]
    /\ UNCHANGED <<floorVars, args, run>>

\* self.is_close(other, tolerance), geometry.py:256-271.
CallIsClose ==
    /\ args.op = "is_close" /\ result = IdleArgs
    /\ result' = [op |-> "is_close",
                  value |-> is_close(args.self, args.other, args.tolerance)]
    /\ UNCHANGED <<floorVars, args, run>>

\* Polygon(vertices).contains_point(point), geometry.py:349-362.
CallContainsPoint ==
    /\ args.op = "contains_point" /\ result = IdleArgs
    /\ result' = [op |-> "contains_point",
                  value |-> Polygon_contains_point(args.vertices, args.point)]
    /\ UNCHANGED <<floorVars, args, run>>

NextGeom == CallIntersect \/ CallIsClose \/ CallContainsPoint

SpecGeom == InitGeom /\ [][NextGeom]_vars

(***************************************************************************)
(* Properties of the geometry functions, stated from plane geometry and    *)
(* not from the code.                                                      *)
(***************************************************************************)
\* The square of the distance from point p to the segment s.
SegDistSq(s, p) ==
    LET dx == RSub(s.end.x, s.start.x)
        dy == RSub(s.end.y, s.start.y)
        len2 == RAdd(RMul(dx, dx), RMul(dy, dy))
        dot == RAdd(RMul(RSub(p.x, s.start.x), dx), RMul(RSub(p.y, s.start.y), dy))
        t == RMax(Zero, RMin(One, RDiv(dot, len2)))
    IN  DistSq(p, Point(RAdd(s.start.x, RMul(t, dx)), RAdd(s.start.y, RMul(t, dy))))

Farther(s, p, tolerance) == RLt(RMul(tolerance, tolerance), SegDistSq(s, p))

Ends(s) == <<s.start, s.end>>

\* The segments share one (near-)coincident endpoint and diverge elsewhere:
\* the other endpoint of each is farther than the tolerance from the other.
SingleSharedCorner(s, o, tolerance) ==
    \E i, j \in 1..2 :
        /\ RLt(DistSq(Ends(s)[i], Ends(o)[j]), RMul(tolerance, tolerance))
        /\ Farther(o, Ends(s)[3 - i], tolerance)
        /\ Farther(s, Ends(o)[3 - j], tolerance)

\* C7: is_close is false for two segments that share only one
\* (near-)coincident endpoint and diverge elsewhere.
C7_SingleSharedCorner ==
    (result.op = "is_close" /\ SingleSharedCorner(args.self, args.other, args.tolerance))
        => result.value = FALSE

Collinear(s, o) ==
    Cross(s.start, s.end, o.start) = Zero /\ Cross(s.start, s.end, o.end) = Zero

\* The coordinate that orders the points of the line of s.
Along(s, p) == IF s.start.x # s.end.x THEN p.x ELSE p.y

\* The two ends of the common part of two collinear segments.
OverlapLow(s, o) ==
    RMax(RMin(Along(s, s.start), Along(s, s.end)), RMin(Along(s, o.start), Along(s, o.end)))

OverlapHigh(s, o) ==
    RMin(RMax(Along(s, s.start), Along(s, s.end)), RMax(Along(s, o.start), Along(s, o.end)))

FourEnds(s, o) == {s.start, s.end, o.start, o.end}

\* C8: for two collinear segments of any orientation that overlap in more
\* than one point, intersect returns a LineSegment whose two endpoints are
\* the ends of the overlapping sub-segment.
C8_CollinearOverlap ==
    ( /\ result.op = "intersect"
      /\ Collinear(args.self, args.other)
      /\ RLt(OverlapLow(args.self, args.other), OverlapHigh(args.self, args.other)) )
        => /\ result.value.kind = "LineSegment"
           /\ {result.value.start, result.value.end}
                = {p \in FourEnds(args.self, args.other) :
                     Along(args.self, p) \in {OverlapLow(args.self, args.other),
                                              OverlapHigh(args.self, args.other)}}

\* p lies on the boundary of the polygon vs.
OnBoundary(vs, p) ==
    \E k \in 1..Len(vs) :
        /\ Cross(edges(vs)[k].start, edges(vs)[k].end, p) = Zero
        /\ SegDistSq(edges(vs)[k], p) = Zero

\* The polygon vs is convex: it turns the same way at every vertex.
Convex(vs) ==
    LET turn(k) == Cross(vs[k], vs[(k % Len(vs)) + 1], vs[((k + 1) % Len(vs)) + 1])
    IN  \/ \A k \in 1..Len(vs) : RLt(Zero, turn(k))
        \/ \A k \in 1..Len(vs) : RLt(turn(k), Zero)

\* C9: for a convex polygon and a point off its boundary, contains_point is
\* true iff the point lies strictly inside the polygon, also when the
\* vertical ray through the point passes through a vertex.
C9_ContainsPoint ==
    ( /\ result.op = "contains_point"
      /\ Convex(args.vertices)
      /\ ~OnBoundary(args.vertices, args.point) )
        => (result.value <=> StrictlyInside(args.vertices, args.point))

(***************************************************************************)
(* extract.py: process(model) and the main loop (extract.py:55-130,        *)
(* 146-164).  The models come from a generator (Cubicasa.models), so the   *)
(* next model and its floors are known only when the loop reaches them.    *)
(* A floor is summarised by what decides its outcome:                      *)
(*   rooms       the number of its Rooms (one row each)                    *)
(*   untyped     the index of a Room whose class attribute names no type,  *)
(*               for which Room.simple_type raises (cubicasa.py:262) when  *)
(*               its row is built, 0 if there is none; the Rooms before it *)
(*               are not adjacent to it                                    *)
(*   boundary    FALSE if a Fixture has no boundary group, for which       *)
(*               Fixture.polygon_element raises (cubicasa.py:408) when     *)
(*               find_inside reads its polygon                             *)
(* run holds: phase; models, the number of models the generator yields; m, *)
(* the model at hand; floors, the number of its floors; f, the floor at    *)
(* hand; floor, its summary; r, the next Room; rows, the number of rows    *)
(* written; last, the <<m, f, r>> of the last row written; errors, the     *)
(* number of "Error when processing" messages printed.                     *)
(***************************************************************************)
MaxModels == 2
MaxFloors == 2
MaxRooms == 2

FloorSummaries ==
    {fl \in [rooms : 0..MaxRooms, untyped : 0..MaxRooms, boundary : BOOLEAN] :
        fl.untyped <= fl.rooms}

NoFloor == [rooms |-> 0, untyped |-> 0, boundary |-> TRUE]

InitRun ==
    /\ IdleFloorState
    /\ args = IdleArgs
    /\ result = IdleArgs
    /\ \E n \in 1..MaxModels :
          run = [phase |-> "next_model", models |-> n, m |-> 0, floors |-> 0,
                 f |-> 0, floor |-> NoFloor, r |-> 0, rows |-> 0,
                 last |-> <<0, 0, 0>>, errors |-> 0]

\* extract.py:128-130 when the exception is swallowed: the loop over the
\* floors of the model goes on.
process_except_continue(st) ==
    [st EXCEPT !.errors = @ + 1, !.phase = "next_floor"]

\* extract.py:128-130: the message is printed and the exception raised
\* again; nothing around the loops of 146-158 catches it.
process_except(st) ==
    [st EXCEPT !.errors = @ + 1, !.phase = "crashed"]

\* for m in iterator, extract.py:152-156.
NextModel ==
    /\ run.phase = "next_model" /\ run.m < run.models
    /\ \E n \in 1..MaxFloors :
          run' = [run EXCEPT !.m = @ + 1, !.floors = n, !.f = 0,
                             !.phase = "next_floor"]
    /\ UNCHANGED <<floorVars, args, result>>

\* The iterator is exhausted: "Completed in ..." is printed, extract.py:161-164.
Complete ==
    /\ run.phase = "next_model" /\ run.m = run.models
    /\ run' = [run EXCEPT !.phase = "completed"]
    /\ UNCHANGED <<floorVars, args, result>>

\* find_objects, find_adjacencies, find_inside and area of the next floor,
\* extract.py:58-63.
AnalyseFloor ==
    /\ run.phase = "next_floor" /\ run.f < run.floors
    /\ \E fl \in FloorSummaries :
          run' = [run EXCEPT !.f = @ + 1, !.floor = fl, !.r = 1,
                             !.phase = IF fl.boundary THEN "rows" ELSE "raised"]
    /\ UNCHANGED <<floorVars, args, result>>

\* The floors of the model are exhausted: process returns.
EndModel ==
    /\ run.phase = "next_floor" /\ run.f = run.floors
    /\ run' = [run EXCEPT !.phase = "next_model"]
    /\ UNCHANGED <<floorVars, args, result>>

\* One turn of the loop over the Rooms, extract.py:65-126, and
\* w.writerow(data), extract.py:158.
YieldRow ==
    /\ run.phase = "rows" /\ run.r <= run.floor.rooms
    /\ run' = IF run.floor.untyped = run.r
              THEN [run EXCEPT !.phase = "raised"]
              ELSE [run EXCEPT !.rows = @ + 1, !.last = <<run.m, run.f, run.r>>,
                               !.r = @ + 1]
    /\ UNCHANGED <<floorVars, args, result>>

\* The Rooms of the floor are exhausted.
EndFloor ==
    /\ run.phase = "rows" /\ run.r > run.floor.rooms
    /\ run' = [run EXCEPT !.phase = "next_floor"]
    /\ UNCHANGED <<floorVars, args, result>>

\* except Exception as e, extract.py:128-130.
Except ==
    /\ run.phase = "raised"
    /\ run' = process_except(run)
    /\ UNCHANGED <<floorVars, args, result>>

NextRun ==
    NextModel \/ Complete \/ AnalyseFloor \/ EndModel \/ YieldRow \/ EndFloor \/ Except

SpecRun == InitRun /\ [][NextRun]_vars

\* Floors or models are left after the floor at hand.
MoreToDo == run.f < run.floors \/ run.m < run.models

\* C10 as stated: an exception raised while a floor is processed aborts
\* only that floor; the caller goes on with the next floor or model.
C10_AbortsOnlyFloor ==
    [][run.phase = "raised" => run'.phase = "next_floor"]_vars

\* C10 as amended: once the error message of a floor's exception is printed
\* the run has ended: it is the only message, and no later step writes a
\* row or moves to another floor or model.
C10_ExceptionEndsRun ==
    /\ run.phase = "raised" => run.errors = 0
    /\ run.errors > 0 =>
          /\ run.phase = "crashed"
          /\ run.errors = 1
          /\ run.last[1] < run.m \/ (run.last[1] = run.m /\ run.last[2] <= run.f)

\* The run ended by an exception after rows were written, with floors or
\* models left unprocessed.
C10_Witness ==
    /\ run.phase = "crashed"
    /\ run.errors = 1
    /\ run.rows > 0
    /\ MoreToDo

(***************************************************************************)
(* Polygons on their own: Polygon.area (geometry.py:329-331) on a vertex   *)
(* list and PlanObject.polygon (cubicasa.py:123-152) on the points of an   *)
(* SVG element.  The lists hold 1..MaxPoints points of the integer grid    *)
(* 0..PolyGrid, in any order and with repetitions.                         *)
(***************************************************************************)
PolyGrid == 1
MaxPoints == 4

PointLists == UNION {[1..n -> GridPoints(0, PolyGrid)] : n \in 1..MaxPoints}

InitPolygon ==
    /\ IdleFloorState
    /\ \E points \in PointLists :
          \/ args = [op |-> "area", vertices |-> points]
          \/ args = [op |-> "polygon", svg_points |-> points]
    /\ result = IdleArgs
    /\ run = IdleRun

\* Polygon(vertices).area(), geometry.py:329-331.
CallArea ==
    /\ args.op = "area" /\ result = IdleArgs
    /\ result' = [op |-> "area", value |-> area(args.vertices)]
    /\ UNCHANGED <<floorVars, args, run>>

\* PlanObject.polygon, cubicasa.py:123-152.
CallPolygon ==
    /\ args.op = "polygon" /\ result = IdleArgs
    /\ result' = [op |-> "polygon", value |-> polygon(args.svg_points)]
    /\ UNCHANGED <<floorVars, args, run>>

NextPolygon == CallArea \/ CallPolygon

SpecPolygon == InitPolygon /\ [][NextPolygon]_vars

\* The list vs started at its (k+1)-th vertex.
Rotate(vs, k) == [i \in 1..Len(vs) |-> vs[((i + k - 1) % Len(vs)) + 1]]

\* vs without the vertices that equal their predecessor in the list.
RECURSIVE WithoutRepeats(_)
WithoutRepeats(vs) ==
    IF Len(vs) <= 1 THEN vs
    ELSE IF vs[1] = vs[2] THEN WithoutRepeats(Tail(vs))
         ELSE <<vs[1]>> \o WithoutRepeats(Tail(vs))

\* C11: area() is non-negative and is the same for a vertex list, for every
\* cyclic rotation of it and for the list with its consecutive duplicate
\* vertices removed (also as PlanObject.polygon removes them, when a vertex
\* is left).
C11_AreaRotationDedup ==
    result.op = "area" =>
        /\ RLe(Zero, result.value)
        /\ \A k \in 0..(Len(args.vertices) - 1) :
              area(Rotate(args.vertices, k)) = result.value
        /\ area(WithoutRepeats(args.vertices)) = result.value
        /\ ~Raises_pairs_of_vertices(polygon(args.vertices))
              => area(polygon(args.vertices)) = result.value

\* A non-zero area has been computed for a list that holds a vertex twice
\* in a row and whose closing pair joins two different vertices.
C11_Witness ==
    /\ result.op = "area"
    /\ result.value # Zero
    /\ Len(WithoutRepeats(args.vertices)) < Len(args.vertices)
    /\ args.vertices[1] # args.vertices[Len(args.vertices)]

(***************************************************************************)
(* Further properties of the adjacency detection and of find_inside.       *)
(***************************************************************************)
\* The records of entity a for its edge i with an intersection of the kind.
\* Pass 1 creates only segment-valued records (cubicasa.py:192-194), pass 2
\* only records without an intersection (cubicasa.py:210-211).
EdgeRecords(a, i, kind) ==
    {k \in 1..Len(adjacencies[a]) :
        /\ adjacencies[a][k].self_edge_index = i
        /\ adjacencies[a][k].intersection.kind = kind}

\* C12: a Room edge that has an adjacency record when pass 1 completes
\* gains no record during pass 2, whichever Room initiates the test.
C12_ResolvedEdgesUntouched ==
    \A r \in RoomIds : \A i \in EdgeIndexes(r) :
        EdgeRecords(r, i, "LineSegment") # {} => EdgeRecords(r, i, "None") = {}

\* C13: an Opening tests only its own edge e against the Room edge of an
\* adjacency event on wall face e, so a Room recorded on side e/2 of an
\* Opening is adjacent to the Opening's Wall on face e.
C13_MatchingSideOnly ==
    \A o \in OpeningIds : \A side \in 1..2 :
        LET room == opening_rooms[o][side]
            w == WallId(floor.openings[o].wall)
        IN  room # NoRoom =>
              \E k \in 1..Len(adjacencies[w]) :
                  /\ adjacencies[w][k].object = room
                  /\ adjacencies[w][k].self_edge_index = 2 * (side - 1)

\* The Rooms with a higher index than r.
LaterRooms(r) == {o \in RoomIds : o[2] > r[2]}

\* C14: when pass 1 completes, every Room R holds exactly one record
\* (O, i, j) for every Wall, Railing or later Room O and eligible edges i of
\* R and j of O whose intersection is a LineSegment, and none otherwise; no
\* Room is matched with itself.  (The records naming an earlier Room are the
\* mirrors of that Room's records.)
C14_Pass1ExactOnce ==
    Pass1Done =>
      \A R \in RoomIds : \A O \in Entities : \A i \in EdgeIndexes(R) :
        \A j \in EdgeIndexes(O) :
          Records(R, O, i, j) =
            IF /\ O # R
               /\ i \in Eligible(R) /\ j \in Eligible(O)
               /\ IF O \in WallIds \cup RailingIds \cup LaterRooms(R)
                  THEN Exact(Edge(R, i), Edge(O, j))
                  ELSE Exact(Edge(O, j), Edge(R, i))
            THEN 1 ELSE 0

\* Pass 1 is complete and has matched a Room with a Wall and with a Room.
C14_Witness ==
    /\ Pass1Done
    /\ \E R \in RoomIds : \E k, n \in 1..Len(adjacencies[R]) :
          /\ adjacencies[R][k].object \in WallIds
          /\ adjacencies[R][n].object \in LaterRooms(R)

Dividers == WallIds \cup RailingIds

\* C15: every record held by a Wall or Railing names its edge 0 or 2; a
\* Wall or Railing whose polygon does not have exactly 4 edges holds no
\* record, and no Room holds a record that references it.
C15_DividerFaces ==
    \A d \in Dividers :
        /\ \A k \in 1..Len(adjacencies[d]) :
              adjacencies[d][k].self_edge_index \in {0, 2}
        /\ Len(Vertices(d)) # 4 =>
              /\ adjacencies[d] = <<>>
              /\ \A r \in RoomIds : \A k \in 1..Len(adjacencies[r]) :
                    adjacencies[r][k].object # d

\* Both passes are complete on a floor where a Wall holds a record and where
\* an edge of a Room lies exactly on a side of a Wall that has 3 edges.
C15_Witness ==
    /\ Pass2Done
    /\ \E d \in Dividers : adjacencies[d] # <<>>
    /\ \E d \in Dividers : \E r \in RoomIds :
          /\ Len(Vertices(d)) = 3
          /\ \E i \in EdgeIndexes(r) : \E j \in EdgeIndexes(d) :
                Exact(Edge(r, i), Edge(d, j))

\* The vertices fixture f has recorded under a Room, in the order recorded.
RecordedUnder(fr, room) ==
    IF \E k \in 1..Len(fr) : fr[k].room = room
    THEN fr[CHOOSE k \in 1..Len(fr) : fr[k].room = room].vertices
    ELSE <<>>

RoomsRecording(f, vertex) ==
    {room \in RoomIds : InSeq(vertex, RecordedUnder(fixture_rooms[f], room))}

\* room.polygon.contains_point(vertex), as the code answers it.
Contains(room, vertex) == Polygon_contains_point(Vertices(room), vertex)

\* The number of vertices of fixture f that find_rooms has been through.
Processed(f) ==
    IF FoundRooms(f) THEN Len(floor.fixtures[f].vertices)
    ELSE IF pc[1] = "inside" /\ pc[2] = f THEN pc[3] - 1 ELSE 0

Least(S) == CHOOSE k \in S : \A n \in S : k <= n

\* The Room the claim names for a vertex: the first Room of Fixture.rooms
\* that contains it, otherwise the first Room of the floor outside
\* Fixture.rooms that contains it, otherwise none.
NamedRoom(f, vertex) ==
    LET known == {k \in 1..Len(fixture_rooms[f]) :
                     Contains(fixture_rooms[f][k].room, vertex)}
        fresh == {k \in 1..Len(floor.rooms) :
                     /\ RoomId(k) \notin FixtureRoomSet(f)
                     /\ Contains(RoomId(k), vertex)}
    IN  IF known # {} THEN fixture_rooms[f][Least(known)].room
        ELSE IF fresh # {} THEN RoomId(Least(fresh))
        ELSE NoRoom

C16_Bookkeeping ==
    \A f \in FixtureIds :
        /\ \A room \in RoomIds : room \in FixtureRoomSet(f) <=> f \in fixtures[room]
        /\ \A n \in 1..Len(floor.fixtures[f].vertices) :
              LET vertex == floor.fixtures[f].vertices[n]
              IN  /\ Cardinality(RoomsRecording(f, vertex)) <= 1
                  /\ \A room \in RoomsRecording(f, vertex) : Contains(room, vertex)
                  /\ (n <= Processed(f) /\ \A room \in RoomIds : ~Contains(room, vertex))
                        => RoomsRecording(f, vertex) = {}

C16_Step ==
    pc[1] = "inside" =>
        LET f == pc[2]
            vertex == floor.fixtures[f].vertices[pc[3]]
            named == NamedRoom(f, vertex)
        IN  \A room \in RoomIds :
                RecordedUnder(fixture_rooms'[f], room) =
                    IF room = named
                    THEN Append(RecordedUnder(fixture_rooms[f], room), vertex)
                    ELSE RecordedUnder(fixture_rooms[f], room)

\* C16: find_rooms records each vertex under at most one Room, the first
\* already-associated Room that contains it, otherwise the first
\* not-yet-associated Room in floor order that contains it; a vertex that no
\* Room contains is recorded nowhere; a Room is in Fixture.rooms iff the
\* Fixture is in the Room's fixtures.
C16_OneRoomPerVertex == []C16_Bookkeeping /\ [][C16_Step]_vars

\* find_rooms is over; a vertex is recorded under an associated Room although
\* a Room earlier in floor order contains it too, and another vertex, which
\* no Room contains, is recorded nowhere.
C16_Witness ==
    /\ pc[1] = "done"
    /\ \E f \in FixtureIds : \E vertex \in VertexSet(f) : \E k, n \in 1..Len(floor.rooms) :
          /\ k < n
          /\ Contains(RoomId(k), vertex)
          /\ RoomsRecording(f, vertex) = {RoomId(n)}
    /\ \E f \in FixtureIds : \E vertex \in VertexSet(f) :
          /\ \A room \in RoomIds : ~Contains(room, vertex)
          /\ RoomsRecording(f, vertex) = {}

\* Two collinear segments whose common part is a single point.
EndToEnd(s, o) == Collinear(s, o) /\ OverlapLow(s, o) = OverlapHigh(s, o)

\* C17: pass 1 creates no record for two collinear edges that only touch
\* end to end, and every intersection segment stored in a record has two
\* distinct endpoints.
C17_NoEndToEndRecord ==
    /\ \A r \in RoomIds : \A o \in Entities \ {r} :
         \A i \in Eligible(r) : \A j \in Eligible(o) :
            EndToEnd(Edge(r, i), Edge(o, j)) =>
                \A k \in 1..Len(adjacencies[r]) :
                    ( /\ adjacencies[r][k].object = o
                      /\ adjacencies[r][k].self_edge_index = i
                      /\ adjacencies[r][k].object_edge_index = j )
                    => adjacencies[r][k].intersection.kind # "LineSegment"
    /\ \A e \in Entities : \A k \in 1..Len(adjacencies[e]) :
         adjacencies[e][k].intersection.kind = "LineSegment" =>
            adjacencies[e][k].intersection.start # adjacencies[e][k].intersection.end

\* C18: the polygon built from a non-empty sequence of input points has at
\* least one vertex, and when it has more than one, no vertex equals its
\* cyclic successor.
C18_PolygonVertices ==
    result.op = "polygon" =>
        /\ Len(result.value) >= 1
        /\ Len(result.value) > 1 =>
              \A i \in 1..Len(result.value) :
                  result.value[i] # result.value[(i % Len(result.value)) + 1]

\* C19: the outcome does not depend on the order of the Rooms: when both
\* passes are complete, an edge of a Room that pass 1 left loose has a record
\* with every edge of another Room that is within the tolerance of it,
\* whichever of the two Rooms has the lower index.
C19_OrderIndependence ==
    Pass2Done =>
      \A r \in RoomIds : \A s \in RoomIds \ {r} :
        \A i \in EdgeIndexes(r) : \A j \in EdgeIndexes(s) :
          ( /\ EdgeRecords(r, i, "LineSegment") = {}
            /\ is_close(Edge(r, i), Edge(s, j), CLOSE_EDGE_TOLERANCE) )
          => Records(r, s, i, j) > 0

====
